---- MODULE Spec2Model ----
(***************************************************************************)
(* MoDE (Multi-objective 2D Embeddings), Python_implementation/MoDE.py.    *)
(*                                                                         *)
(* The model follows one call of MoDE.fit_transform statement by statement *)
(* (pc is the position in the function body) and MoDE.incidence_matrix as  *)
(* a pure operator.                                                        *)
(*                                                                         *)
(* Conventions                                                             *)
(*  - Arrays are sequences, so indices are 1-based: index i here is index  *)
(*    i-1 of the Python code.  Orderings of indices are unchanged.         *)
(*  - A float is a tuple: <<v>> is the number v, <<>> is NaN.              *)
(*  - Angles are fixed-point integers in units of pi/(6*AngleScale); the   *)
(*    update step rounds to the nearest unit where the code rounds to the  *)
(*    nearest double.                                                      *)
(*  - The error e = ||g|| / sqrt(N-1) is carried as (N-1)*e^2 = sum g_i^2, *)
(*    an integer, and compared with (N-1)*tol^2.                           *)
(*  - dm = (dm_ub + dm_lb)/2 is carried in half units (dm_ub + dm_lb).     *)
(*  - A correlation bound is the exact fraction <<numerator, denominator>>.*)
(***************************************************************************)
EXTENDS Integers, Sequences, FiniteSets, TLC

VARIABLES
    n_neighbor, max_iter, tol, verbose,   \* self.* set by __init__
    data, score, dm_ub, dm_lb,            \* arguments of fit_transform
    pc,                                   \* position in the code
    A, inc_mat, r_ub, r_lb, min_ind,      \* locals of fit_transform
    x, error_progression, gamma, cnt, x_2d,
    out,                                  \* what print() has written
    raised,                               \* the exception raised, or "none"
    stopped,                              \* the break of line 102 was taken
    updates                               \* executions of the update step, line 104

vars == <<n_neighbor, max_iter, tol, verbose, data, score, dm_ub, dm_lb, pc,
          A, inc_mat, r_ub, r_lb, min_ind, x, error_progression, gamma, cnt,
          x_2d, out, raised, stopped, updates>>

config == <<n_neighbor, max_iter, tol, verbose>>
args == <<data, score, dm_ub, dm_lb>>

-----------------------------------------------------------------------------
(* Bounds of the model. *)

MaxN == 3
MaxPos == 3
MaxScore == 1
MaxIter == 2
AngleScale == 4

(* Program constants. *)

\* line 98: if cnt % 1000 == 0 and e < self.tol
CheckEvery == 1000
\* line 91: if cnt%10000 == 0 and self.verbose
ReportEvery == 10000

-----------------------------------------------------------------------------
(* Floats. *)

NaN == <<>>
F(v) == <<v>>
IsNaN(a) == a = NaN
Val(a) == a[1]

Neg(a) == IF IsNaN(a) THEN NaN ELSE F(-Val(a))
Plus(a, b) == IF IsNaN(a) \/ IsNaN(b) THEN NaN ELSE F(Val(a) + Val(b))
Minus(a, b) == Plus(a, Neg(b))
\* np.maximum / np.minimum propagate NaN
Maximum(a, b) ==
    IF IsNaN(a) \/ IsNaN(b) THEN NaN ELSE IF Val(a) >= Val(b) THEN a ELSE b
Minimum(a, b) ==
    IF IsNaN(a) \/ IsNaN(b) THEN NaN ELSE IF Val(a) <= Val(b) THEN a ELSE b
\* a / den rounded to the nearest unit
RoundDiv(a, den) ==
    IF IsNaN(a) THEN NaN ELSE F((2 * Val(a) + den) \div (2 * den))

Abs(v) == IF v < 0 THEN -v ELSE v
MaxOf(S) == CHOOSE m \in S : \A s \in S : s <= m
MinOf(S) == CHOOSE m \in S : \A s \in S : m <= s

RECURSIVE SumF(_, _)
\* sum of f[i] over i in S, NaN if any term is NaN
SumF(f, S) ==
    IF S = {} THEN F(0)
    ELSE LET i == CHOOSE j \in S : TRUE
         IN  Plus(f[i], SumF(f, S \ {i}))

-----------------------------------------------------------------------------
(* Matrices: a sequence of rows. *)

Rows(M) == Len(M)
Cols(M) == IF Len(M) = 0 THEN 0 ELSE Len(M[1])
Transpose(M) == [j \in 1..Cols(M) |-> [i \in 1..Rows(M) |-> M[i][j]]]
\* np.any(X != Y)
AnyDiffer(X, Y) == \E i \in 1..Rows(X) : \E j \in 1..Cols(X) : X[i][j] # Y[i][j]
\* scipy.sparse.find / nonzero: the positions of the nonzero entries
Find(M) == {ij \in (1..Rows(M)) \X (1..Cols(M)) : M[ij[1]][ij[2]] # 0}

\* line 48: np.any(dm_ub.T != dm_ub) or np.any(dm_lb.T != dm_lb.T)
NotSymmetric(ub, lb) ==
    AnyDiffer(Transpose(ub), ub) \/ AnyDiffer(Transpose(lb), Transpose(lb))

\* line 51: np.linalg.norm(data, axis=1); the rows of the model have integer norms
RowNorm(row) ==
    LET ss == Val(SumF([i \in 1..Len(row) |-> F(row[i] * row[i])], 1..Len(row)))
    IN  CHOOSE n \in 0..ss : n * n = ss
Norms(d) == [i \in 1..Len(d) |-> RowNorm(d[i])]

\* lines 55-58: the correlation bound from a distance bound (law of cosines)
Corr(norms, dm) ==
    [i \in 1..Len(norms) |-> [j \in 1..Len(norms) |->
        <<norms[j] * norms[j] + norms[i] * norms[i] - dm[i][j] * dm[i][j],
          2 * norms[j] * norms[i]>>]]

\* np.arccos on the fractions whose arc cosine is a multiple of pi/6;
\* outside [-1, 1] numpy returns NaN (with a RuntimeWarning, no exception)
ArcCos(q) ==
    CASE q[1] > q[2] \/ q[1] < -q[2] -> NaN
      [] q[1] = q[2] -> F(0)
      [] 2 * q[1] = q[2] -> F(2 * AngleScale)
      [] q[1] = 0 -> F(3 * AngleScale)
      [] 2 * q[1] = -q[2] -> F(4 * AngleScale)
      [] q[1] = -q[2] -> F(6 * AngleScale)

-----------------------------------------------------------------------------
(* The k-nearest-neighbour graph, lines 62-67. *)

\* line 62, in half units
AvgDist(ub, lb) ==
    [i \in 1..Rows(ub) |-> [j \in 1..Cols(ub) |-> ub[i][j] + lb[i][j]]]

\* The sets of k columns a row of distances can yield as its k nearest:
\* no column left out is nearer than a column taken.  Among equal
\* distances the library's partial sort decides.
NearestSets(row, k) ==
    {S \in SUBSET (1..Len(row)) :
        /\ Cardinality(S) = k
        /\ \A a \in S : \A b \in (1..Len(row)) \ S : row[a] <= row[b]}

RECURSIVE NeighborChoices(_, _, _)
\* every choice of a nearest set for rows 1..i
NeighborChoices(dm, k, i) ==
    IF i = 0 THEN {<<>>}
    ELSE {Append(s, c) : s \in NeighborChoices(dm, k, i - 1),
                         c \in NearestSets(dm[i], k)}

\* line 67: neigh.kneighbors_graph(dm) - identity(N)
Adjacency(nb) ==
    [i \in 1..Len(nb) |-> [j \in 1..Len(nb) |->
        (IF j \in nb[i] THEN 1 ELSE 0) - (IF i = j THEN 1 ELSE 0)]]

-----------------------------------------------------------------------------
(* MoDE.incidence_matrix, lines 113-147. *)

\* line 131: tuple(sorted(x, key=lambda y: score[y])); sorted() is stable
SortedByScore(e, sc) ==
    IF sc[e[2]] < sc[e[1]] THEN <<e[2], e[1]>> ELSE e

\* line 131: the set of edges
Edges(M, sc) == {SortedByScore(e, sc) : e \in Find(M)}

RECURSIVE EdgeList(_, _)
\* line 142: the edges in the order the rows are emitted (here: lexicographic;
\* no statement below depends on the order of the rows)
EdgeList(E, n) ==
    IF E = {} THEN <<>>
    ELSE LET m == CHOOSE e \in E :
                    \A f \in E : e[1] * (n + 1) + e[2] <= f[1] * (n + 1) + f[2]
         IN  <<m>> \o EdgeList(E \ {m}, n)

\* lines 139-146: csr_matrix((values, (row_ind, col_ind))): the shape is
\* inferred from the largest indices and entries at one place are summed
CsrRows(el) ==
    LET ncols == MaxOf({e[1] : e \in {el[i] : i \in 1..Len(el)}}
                       \cup {e[2] : e \in {el[i] : i \in 1..Len(el)}})
    IN  [r \in 1..Len(el) |-> [c \in 1..ncols |->
            (IF c = el[r][1] THEN -1 ELSE 0) + (IF c = el[r][2] THEN 1 ELSE 0)]]

incidence_matrix(M, sc) ==
    IF Rows(M) # Cols(M)
    THEN [err |-> "error: adjacency matrix should be a square matrix", mat |-> <<>>]
    ELSE IF \E ij \in Find(M) : M[ij[1]][ij[2]] # 1 /\ M[ij[1]][ij[2]] # 0
    THEN [err |-> "not a 0-1 matrix", mat |-> <<>>]
    ELSE IF Len(sc) # Rows(M)
    THEN [err |-> "error: length of the score vector should be equal to the number of data points",
          mat |-> <<>>]
    ELSE IF Edges(M, sc) = {}
    THEN [err |-> "cannot infer dimensions from zero sized index arrays", mat |-> <<>>]
    ELSE [err |-> "none", mat |-> CsrRows(EdgeList(Edges(M, sc), Rows(M)))]

-----------------------------------------------------------------------------
(* Edge bounds, lines 71-77. *)

\* the column indices of the nonzero entries of a row, ascending
RowNonzero(row) == {c \in 1..Len(row) : row[c] # 0}

\* line 71: inc_mat.nonzero()[1].reshape((-1, 2)), for rows of two nonzeros
NodeIndices(B) ==
    [e \in 1..Rows(B) |-> <<MinOf(RowNonzero(B[e])), MaxOf(RowNonzero(B[e]))>>]

\* lines 72-73: cm[node_indices[:, 0], node_indices[:, 1]]
Gather(cm, ni) == [e \in 1..Len(ni) |-> cm[ni[e][1]][ni[e][2]]]

\* lines 76-77
AngleBounds(c) == [e \in 1..Len(c) |-> ArcCos(c[e])]

-----------------------------------------------------------------------------
(* The solver, lines 80-106. *)

\* line 80: np.argmin returns the first index of the minimum
ArgMin(sc) ==
    CHOOSE i \in 1..Len(sc) :
        /\ \A j \in 1..Len(sc) : sc[i] <= sc[j]
        /\ \A j \in 1..(i - 1) : sc[j] > sc[i]

\* line 81: inc_mat[:, list(range(min_ind)) + list(range(min_ind+1, N))]
RemoveColumn(B, m) ==
    [r \in 1..Rows(B) |-> [c \in 1..(Cols(B) - 1) |->
        IF c < m THEN B[r][c] ELSE B[r][c + 1]]]

\* line 83 / line 85: np.zeros(n)
Zeros(n) == [i \in 1..n |-> F(0)]

\* (np.dot(inc_mat.T, inc_mat)).diagonal()
GramDiagonal(B) ==
    [c \in 1..Cols(B) |->
        Val(SumF([r \in 1..Rows(B) |-> F(B[r][c] * B[r][c])], 1..Rows(B)))]

\* the step size without the factor 2
GammaUnhalved(B) == <<1, MaxOf({GramDiagonal(B)[c] : c \in 1..Cols(B)})>>

\* line 86: gamma = 1 / (2 * np.max(...)), the fraction <<1, 2 * max>>
Gamma(B) == <<1, 2 * MaxOf({GramDiagonal(B)[c] : c \in 1..Cols(B)})>>

\* inc_mat.dot(x): a sparse product, only the stored entries take part
Dot(B, v) ==
    [r \in 1..Rows(B) |->
        SumF([c \in 1..Cols(B) |-> IF B[r][c] = 1 THEN v[c] ELSE Neg(v[c])],
             RowNonzero(B[r]))]

\* inc_mat.T.dot(d)
DotT(B, d) ==
    [c \in 1..Cols(B) |->
        SumF([r \in 1..Rows(B) |-> IF B[r][c] = 1 THEN d[r] ELSE Neg(d[r])],
             {r \in 1..Rows(B) : B[r][c] # 0})]

\* lines 149-158
proj_l_u(v, l, u) == [i \in 1..Len(v) |-> Minimum(Maximum(v[i], l[i]), u[i])]

\* inc_mat.T.dot(inc_mat.dot(x) - self.proj_l_u(inc_mat.dot(x), r_lb, r_ub))
Gradient(B, v, l, u) ==
    LET bx == Dot(B, v)
        p == proj_l_u(bx, l, u)
    IN  DotT(B, [e \in 1..Len(bx) |-> Minus(bx[e], p[e])])

\* line 95: e, carried as (N-1) * e^2
ErrorOf(g) ==
    IF \E i \in 1..Len(g) : IsNaN(g[i]) THEN NaN
    ELSE SumF([i \in 1..Len(g) |-> F(Val(g[i]) * Val(g[i]))], 1..Len(g))

\* e < self.tol; a comparison with NaN is false
Below(e, t, n) == ~IsNaN(e) /\ Val(e) < (n - 1) * t * t

\* the tolerance checked at every iteration
StopAnyIteration(c, e, t, n) == Below(e, t, n)

\* line 98
StopNow(c, e, t, n) == c % CheckEvery = 0 /\ Below(e, t, n)

\* line 101: error_progression[:cnt+1]
Truncate(ep, c) == SubSeq(ep, 1, c + 1)

\* line 104: x - gamma * g
Step(v, g, gm) == [i \in 1..Len(v) |-> Minus(v[i], RoundDiv(g[i], gm[2]))]

\* a range that runs one iteration too far
RangeDoneLate(c, mi) == c >= mi

\* line 90: for cnt in range(self.max_iter) is exhausted after iteration c
RangeDone(c, mi) == c + 1 >= mi

\* the zero put in front of the solved angles
InsertZeroFirst(v, m) == <<F(0)>> \o v

\* line 106: np.concatenate((x[:min_ind], np.array([0]), x[min_ind:]))
InsertZero(v, m) == SubSeq(v, 1, m - 1) \o <<F(0)>> \o SubSeq(v, m, Len(v))

\* np.cos / np.sin: exact at 0, otherwise the unevaluated term
Cos(a) == IF IsNaN(a) THEN NaN ELSE IF Val(a) = 0 THEN F(1) ELSE <<1, "cos", Val(a)>>
Sin(a) == IF IsNaN(a) THEN NaN ELSE IF Val(a) = 0 THEN F(0) ELSE <<1, "sin", Val(a)>>
Scale(n, t) ==
    IF IsNaN(t) THEN NaN ELSE IF Len(t) = 1 THEN F(n * Val(t)) ELSE <<n, t[2], t[3]>>

\* line 110: the rows (norm_i * cos(x_i), norm_i * sin(x_i))
Embedding(norms, v) ==
    [i \in 1..Len(v) |-> <<Scale(norms[i], Cos(v[i])), Scale(norms[i], Sin(v[i]))>>]

-----------------------------------------------------------------------------
(* fit_transform, lines 46-111, one action per block of the body. *)

N == Len(data)
data_norms == Norms(data)

Raise(msg) ==
    /\ raised' = msg
    /\ pc' = "error"

\* lines 46-53: the symmetry check and the zero-norm check
Validate ==
    /\ pc = "start"
    /\ IF NotSymmetric(dm_ub, dm_lb)
       THEN Raise("distance matrices should be symmetric")
       ELSE IF \E i \in 1..N : data_norms[i] = 0
       THEN Raise("error: remove zero-norm points")
       ELSE pc' = "graph" /\ raised' = raised
    /\ UNCHANGED <<config, args, A, inc_mat, r_ub, r_lb, min_ind, x,
                   error_progression, gamma, cnt, x_2d, out, stopped, updates>>

\* lines 60-69: the KNN graph, the adjacency matrix and the incidence matrix
BuildGraph ==
    /\ pc = "graph"
    /\ \E nb \in NeighborChoices(AvgDist(dm_ub, dm_lb), n_neighbor + 1, N) :
          LET adj == Adjacency(nb)
              res == incidence_matrix(adj, score)
          IN  /\ A' = adj
              /\ IF res.err # "none"
                 THEN Raise(res.err) /\ inc_mat' = inc_mat
                 ELSE pc' = "bounds" /\ raised' = raised /\ inc_mat' = res.mat
    /\ UNCHANGED <<config, args, r_ub, r_lb, min_ind, x, error_progression,
                   gamma, cnt, x_2d, out, stopped, updates>>

\* lines 70-77: the bounds on the angular difference of every edge
ExtractBounds ==
    /\ pc = "bounds"
    /\ LET node_indices == NodeIndices(inc_mat)
           c_ub == Gather(Corr(data_norms, dm_lb), node_indices)
           c_lb == Gather(Corr(data_norms, dm_ub), node_indices)
       IN  /\ r_ub' = AngleBounds(c_lb)
           /\ r_lb' = AngleBounds(c_ub)
    /\ pc' = "init"
    /\ UNCHANGED <<config, args, A, inc_mat, min_ind, x, error_progression,
                   gamma, cnt, x_2d, out, raised, stopped, updates>>

\* lines 78-89: initialization of the gradient descent
InitGD ==
    /\ pc = "init"
    /\ min_ind' = ArgMin(score)
    /\ inc_mat' = RemoveColumn(inc_mat, min_ind')
    /\ x' = Zeros(N - 1)
    /\ error_progression' = Zeros(max_iter)
    /\ gamma' = Gamma(inc_mat')
    /\ out' = out \o <<<<"gamma", gamma'>>>>
                  \o (IF verbose THEN <<<<"Start of Gradient Descent algorithm">>>>
                                 ELSE <<>>)
    /\ cnt' = 0
    /\ pc' = IF max_iter = 0 THEN "finish" ELSE "loop"
    /\ UNCHANGED <<config, args, A, r_ub, r_lb, x_2d, raised, stopped, updates>>

\* lines 90-104: one iteration of the loop
Iterate ==
    /\ pc = "loop"
    /\ LET g == Gradient(inc_mat, x, r_lb, r_ub)
           e == ErrorOf(g)
           ep == [error_progression EXCEPT ![cnt + 1] = e]
           shown == IF cnt % ReportEvery = 0 /\ verbose
                    THEN Append(out, <<"iterations has passed", cnt, max_iter>>)
                    ELSE out
       IN  IF StopNow(cnt, e, tol, N)
           THEN /\ out' = IF verbose
                          THEN Append(shown, <<"GD stopped after iteration", cnt>>)
                          ELSE shown
                /\ error_progression' = Truncate(ep, cnt)
                /\ stopped' = TRUE
                /\ pc' = "finish"
                /\ UNCHANGED <<x, cnt, updates>>
           ELSE /\ out' = shown
                /\ error_progression' = ep
                /\ x' = Step(x, g, gamma)
                /\ updates' = updates + 1
                /\ IF RangeDone(cnt, max_iter)
                   THEN pc' = "finish" /\ cnt' = cnt
                   ELSE pc' = "loop" /\ cnt' = cnt + 1
                /\ UNCHANGED stopped
    /\ UNCHANGED <<config, args, A, inc_mat, r_ub, r_lb, min_ind, gamma, x_2d, raised>>

\* lines 105-111: the angle of the removed point and the points in 2D
Finish ==
    /\ pc = "finish"
    /\ x' = InsertZero(x, min_ind)
    /\ out' = IF verbose THEN Append(out, <<"end of GD algorithm">>) ELSE out
    /\ x_2d' = Embedding(data_norms, x')
    /\ pc' = "done"
    /\ UNCHANGED <<config, args, A, inc_mat, r_ub, r_lb, min_ind,
                   error_progression, gamma, cnt, raised, stopped, updates>>

Next ==
    \/ Validate
    \/ BuildGraph
    \/ ExtractBounds
    \/ InitGD
    \/ Iterate
    \/ Finish

-----------------------------------------------------------------------------
(* Inputs. *)

\* N distinct points on a line at integer positions, in increasing order
Positions(n) ==
    {p \in [1..n -> 0..MaxPos] : \A i \in 1..(n - 1) : p[i] < p[i + 1]}

\* the exact pairwise distances of the points
Distances(p) == [i \in 1..Len(p) |-> [j \in 1..Len(p) |-> Abs(p[i] - p[j])]]

\* bounds on the distances: every distance between two distinct points
\* widened by s above and narrowed by s (not below 0) underneath
Upper(D, s) ==
    [i \in 1..Len(D) |-> [j \in 1..Len(D) |-> IF i = j THEN D[i][j] ELSE D[i][j] + s]]
Lower(D, s) ==
    [i \in 1..Len(D) |-> [j \in 1..Len(D) |->
        IF i = j \/ D[i][j] < s THEN D[i][j] ELSE D[i][j] - s]]

Slacks == {0, 1}
\* tolerances in angle units: one unit, two units, more than any error
TolChoices == {1, 2, 100}
\* one feature per point: every row of norm 1, or one row of norm 0
UnitData(n) == [i \in 1..n |-> <<1>>]
DataChoices(n) ==
    {UnitData(n)} \cup {[UnitData(n) EXCEPT ![i] = <<0>>] : i \in 1..n}

\* the state at the entry of fit_transform
Start(d, sc, ub, lb, k, mi, t, vb) ==
    /\ data = d /\ score = sc /\ dm_ub = ub /\ dm_lb = lb
    /\ n_neighbor = k /\ max_iter = mi /\ tol = t /\ verbose = vb
    /\ pc = "start"
    /\ A = <<>> /\ inc_mat = <<>> /\ r_ub = <<>> /\ r_lb = <<>>
    /\ min_ind = 0 /\ x = <<>> /\ error_progression = <<>> /\ gamma = <<>>
    /\ cnt = 0 /\ x_2d = <<>>
    /\ out = <<>> /\ raised = "none" /\ stopped = FALSE /\ updates = 0

\* Inputs of the documented shape: unit-norm points, symmetric bounds with
\* zero diagonal, lower <= upper, 1 <= n_neighbor < N, a few iterations.
Init ==
    \E n \in 2..MaxN :
    \E p \in Positions(n), s \in Slacks, sc \in [1..n -> 0..MaxScore] :
    \E k \in 1..(n - 1), mi \in 1..MaxIter, t \in TolChoices, vb \in BOOLEAN :
        Start(UnitData(n), sc, Upper(Distances(p), s), Lower(Distances(p), s),
              k, mi, t, vb)

Spec == Init /\ [][Next]_vars

\* Long runs: the same bounds with the scores in index order, one neighbour,
\* possibly a zero-norm point, and an iteration cap that ends just before or
\* just after the second tolerance check.
InitLoop ==
    \E n \in 2..MaxN :
    \E d \in DataChoices(n), p \in Positions(n), s \in Slacks :
    \E mi \in {CheckEvery, CheckEvery + 1}, t \in TolChoices :
        Start(d, [i \in 1..n |-> i], Upper(Distances(p), s),
              Lower(Distances(p), s), 1, mi, t, TRUE)

SpecLoop == InitLoop /\ [][Next]_vars

\* Inputs the interface does not rule out: equally spaced points whose
\* distance matrices carry a self-distance dg on the diagonal and possibly one
\* entry (i, j), i # j, of one matrix raised by 1.
Diagonals == {0, 2}
WithDiagonal(D, dg) ==
    [i \in 1..Len(D) |-> [j \in 1..Len(D) |-> IF i = j THEN dg ELSE D[i][j]]]
Raised(D, ij) ==
    [i \in 1..Len(D) |-> [j \in 1..Len(D) |->
        IF <<i, j>> = ij THEN D[i][j] + 1 ELSE D[i][j]]]
OffDiagonal(n) == {ij \in (1..n) \X (1..n) : ij[1] # ij[2]}
DistancePairs(n) ==
    LET base == {WithDiagonal(Distances([i \in 1..n |-> i]), dg) : dg \in Diagonals}
    IN  {<<D, D>> : D \in base}
        \cup {<<Raised(D, ij), D>> : D \in base, ij \in OffDiagonal(n)}
        \cup {<<D, Raised(D, ij)>> : D \in base, ij \in OffDiagonal(n)}

InitRaw ==
    \E n \in 2..MaxN :
    \E dd \in DistancePairs(n), sc \in [1..n -> 0..MaxScore] :
    \E k \in 1..(n - 1), t \in TolChoices, vb \in BOOLEAN :
        Start(UnitData(n), sc, dd[1], dd[2], k, 1, t, vb)

SpecRaw == InitRaw /\ [][Next]_vars

-----------------------------------------------------------------------------
(* incidence_matrix called on its own. *)

IncidenceCall ==
    /\ pc = "inc_call"
    /\ LET res == incidence_matrix(A, score)
       IN  /\ inc_mat' = res.mat
           /\ raised' = res.err
           /\ pc' = IF res.err = "none" THEN "inc_done" ELSE "error"
    /\ UNCHANGED <<config, args, A, r_ub, r_lb, min_ind, x, error_progression,
                   gamma, cnt, x_2d, out, stopped, updates>>

NextInc == IncidenceCall

\* every irreflexive 0/1 matrix, symmetric or not
AdjacencyMatrices(n) ==
    {M \in [1..n -> [1..n -> {0, 1}]] : \A i \in 1..n : M[i][i] = 0}

InitInc ==
    \E n \in 2..MaxN :
    \E M \in AdjacencyMatrices(n), sc \in [1..n -> 0..MaxScore] :
        /\ A = M /\ score = sc /\ pc = "inc_call"
        /\ data = <<>> /\ dm_ub = <<>> /\ dm_lb = <<>>
        /\ n_neighbor = 0 /\ max_iter = 0 /\ tol = 0 /\ verbose = FALSE
        /\ inc_mat = <<>> /\ r_ub = <<>> /\ r_lb = <<>>
        /\ min_ind = 0 /\ x = <<>> /\ error_progression = <<>> /\ gamma = <<>>
        /\ cnt = 0 /\ x_2d = <<>>
        /\ out = <<>> /\ raised = "none" /\ stopped = FALSE /\ updates = 0

SpecInc == InitInc /\ [][NextInc]_vars

-----------------------------------------------------------------------------
(* Properties. *)

Symmetric(M) == \A i \in 1..Rows(M) : \A j \in 1..Cols(M) : M[i][j] = M[j][i]
Validated == pc \in {"bounds", "init", "loop", "finish", "done"}
InSolver == pc \in {"loop", "finish", "done"}

\* C1: a call whose dm_ub or dm_lb differs from its transpose is rejected
\* with "distance matrices should be symmetric" and yields no embedding: it
\* never gets past the check.
C1_AsymmetricRejected ==
    (~Symmetric(dm_ub) \/ ~Symmetric(dm_lb)) /\ pc # "inc_call" =>
        \/ pc = "start"
        \/ /\ pc = "error"
           /\ raised = "distance matrices should be symmetric"
           /\ x_2d = <<>>

\* the first index of the minimum score
MinScoreIndex == MinOf({i \in 1..N : \A j \in 1..N : score[i] <= score[j]})

\* C2: the final angle vector has N entries, its entry at the first index of
\* the minimum score is exactly 0, the N-1 solved angles keep their order
\* around it, and the embedding row of that point is (norm, 0); whatever the
\* number of iterations performed.
C2_GaugeFixed ==
    [][pc = "finish" /\ pc' = "done" =>
        /\ Len(x') = N
        /\ x'[MinScoreIndex] = F(0)
        /\ \A i \in 1..(N - 1) : x'[IF i < MinScoreIndex THEN i ELSE i + 1] = x[i]
        /\ Len(x_2d') = N
        /\ x_2d'[MinScoreIndex] = <<F(data_norms[MinScoreIndex]), F(0)>>]_vars

\* a finished call whose gauge point is neither the first nor the last point
\* and whose solved angles are not all zero
C2_Witness ==
    /\ pc = "done"
    /\ 1 < MinScoreIndex /\ MinScoreIndex < N
    /\ updates > 0
    /\ \E i \in 1..N : ~IsNaN(x[i]) /\ Val(x[i]) # 0

\* (score ascending, ties by original index)
Before(a, b) == score[a] < score[b] \/ (score[a] = score[b] /\ a < b)

\* C3: every row of the incidence matrix has exactly one -1 and exactly one
\* +1, the -1 at the endpoint that comes first in the order (score ascending,
\* ties by original index), whichever direction of the edge appears in A.
C3_RowsOriented ==
    pc = "inc_done" =>
        \A r \in 1..Rows(inc_mat) :
            LET neg == {c \in 1..Cols(inc_mat) : inc_mat[r][c] = -1}
                pos == {c \in 1..Cols(inc_mat) : inc_mat[r][c] = 1}
            IN  /\ Cardinality(neg) = 1
                /\ Cardinality(pos) = 1
                /\ RowNonzero(inc_mat[r]) = neg \cup pos
                /\ \A a \in neg : \A b \in pos : Before(a, b)

\* the unordered pairs {i, j}, i # j, that A nominates in either direction
NominatedPairs ==
    {p \in SUBSET (1..Rows(A)) :
        /\ Cardinality(p) = 2
        /\ \E i \in p : \E j \in p \ {i} : A[i][j] # 0}

\* C4: incidence_matrix emits exactly one row per unordered pair that A
\* nominates in either direction, for every score vector.
C4_OneRowPerPair ==
    pc = "inc_done" => Rows(inc_mat) = Cardinality(NominatedPairs)

\* C5: once the input has passed validation no step of the call raises; the
\* loop counter stays below max_iter and every pass of the loop body either
\* leaves the loop or applies one update and advances the counter, so the
\* body runs at most max_iter times; the call returns N rows; without an early
\* stop exactly max_iter updates are applied and the error history keeps its
\* length max_iter.
C5_LoopTerminates ==
    [][Validated =>
        /\ pc' # "error" /\ raised' = "none"
        /\ cnt' < max_iter
        /\ updates' <= max_iter
        /\ (pc = "loop" =>
                \/ pc' = "finish"
                \/ pc' = "loop" /\ updates' = updates + 1 /\ cnt' = cnt + 1)
        /\ (pc' \in {"finish", "done"} /\ ~stopped' =>
                updates' = max_iter /\ Len(error_progression') = max_iter)
        /\ (pc' = "done" => Len(x_2d') = N)]_vars

\* a return after all max_iter iterations, the tolerance checked twice and
\* never met
C5_Witness ==
    /\ pc = "done"
    /\ ~stopped
    /\ max_iter > CheckEvery
    /\ updates = max_iter

\* C6: the loop breaks only at a counter that is a multiple of 1000 and at
\* which e < tol; the update of that iteration is not applied (x has received
\* cnt updates) and the error history is cut to its first cnt+1 entries.
C6_StopOnlyAtCheckpoint ==
    stopped =>
        /\ cnt % CheckEvery = 0
        /\ Len(error_progression) = cnt + 1
        /\ Below(error_progression[cnt + 1], tol, N)
        /\ updates = cnt

\* a stop at iteration 1000 of a run whose error was above the tolerance at
\* iteration 0 and below it at iteration 999
C6_Witness ==
    /\ stopped
    /\ cnt = CheckEvery
    /\ ~Below(error_progression[1], tol, N)
    /\ Below(error_progression[CheckEvery], tol, N)

\* C7: a correlation bound outside [-1, 1] makes the call fail when the
\* bounds are extracted: the solver is never entered with a NaN angular bound.
C7_NoNaNBound ==
    pc \in {"init", "loop", "finish", "done"} =>
        \A e \in 1..Len(r_ub) : ~IsNaN(r_lb[e]) /\ ~IsNaN(r_ub[e])

\* C8: with verbose = False nothing is written to the output stream.
C8_SilentUnlessVerbose == ~verbose => out = <<>>

\* C9: for symmetric distance matrices and 1 <= n_neighbor < N the adjacency
\* matrix is irreflexive, 0/1, and gives every point exactly n_neighbor
\* neighbours, so it passes the 0/1 validation of incidence_matrix.
C9_ExactlyKNeighbours ==
    A # <<>> /\ pc # "inc_call" /\ pc # "inc_done"
             /\ Symmetric(dm_ub) /\ Symmetric(dm_lb) =>
        /\ \A i \in 1..N :
              /\ A[i][i] = 0
              /\ \A j \in 1..N : A[i][j] \in {0, 1}
              /\ Cardinality({j \in 1..N : A[i][j] = 1}) = n_neighbor
        /\ raised # "not a 0-1 matrix"

\* the number of rows of the full incidence matrix that touch point i
RowsAt(i) ==
    LET full == incidence_matrix(A, score).mat
    IN  Cardinality({r \in 1..Rows(full) : full[r][i] # 0})

\* the number of points that share an edge with point i
Degree(i) == Cardinality({p \in NominatedPairs : i \in p})

\* C10 as stated: gamma = 1 / (2 * d_max), d_max taken over all N points,
\* the gauge-fixed point included; d_max read either as the largest diagonal
\* entry of B^T B of the full incidence matrix or as the largest degree.
C10_OverAllPoints ==
    InSolver =>
        \/ gamma = <<1, 2 * MaxOf({RowsAt(i) : i \in 1..N})>>
        \/ gamma = <<1, 2 * MaxOf({Degree(i) : i \in 1..N})>>

\* C10 as amended: d_max is taken over the N-1 points that remain after the
\* column of the minimum-score point is removed; gamma keeps that value
\* through the loop.
C10_OverFreePoints ==
    InSolver =>
        gamma = <<1, 2 * MaxOf({RowsAt(i) : i \in (1..N) \ {MinScoreIndex}})>>

\* the loop is running and the gauge-fixed point has more edges than any
\* other point
C10_Witness ==
    /\ pc = "loop"
    /\ updates > 0
    /\ \A i \in (1..N) \ {MinScoreIndex} : RowsAt(i) < RowsAt(MinScoreIndex)

====
